---------------------------- MODULE Spec2Model ----------------------------
(***************************************************************************)
(* A model of the credential and session lifecycle of fastapi-authen:      *)
(* registration, login/logout and sessions (app/services/auth.py,          *)
(* app/api/v1/endpoints/auth.py), password reset, and TOTP MFA             *)
(* (app/api/v1/endpoints/mfa.py).                                          *)
(*                                                                         *)
(* Tables are sequences of rows in insertion order; a row's id is its      *)
(* index.  Query.first() returns the matching row of lowest id, 0 when     *)
(* there is none.  Random values (secrets.token_urlsafe, bcrypt salts,     *)
(* pyotp.random_base32) are drawn from the counter rng, so every draw is   *)
(* fresh.  Time is in seconds.                                             *)
(***************************************************************************)
EXTENDS Integers, Sequences, FiniteSets, TLC

VARIABLES
    now,                    \* datetime.utcnow(), in seconds
    ticks,                  \* how many times the clock has advanced
    rng,                    \* next value of the random source
    users,                  \* table users
    user_sessions,          \* table user_sessions
    mfa_settings,           \* table mfa_settings
    password_reset_tokens,  \* table password_reset_tokens
    resp,                   \* the last request served and its response
    pc,                     \* concurrent confirm requests: position of each
    local,                  \* concurrent confirm requests: handler locals and ORM session
    redemptions,            \* history: per reset-token row, confirms committed with it
    api_keys,               \* table api_keys
    requests                \* RateLimitMiddleware.requests: client IP -> timestamps admitted

vars == <<now, ticks, rng, users, user_sessions, mfa_settings,
          password_reset_tokens, resp, pc, local, redemptions,
          api_keys, requests>>

tables == <<users, user_sessions, mfa_settings, password_reset_tokens>>

----------------------------------------------------------------------------
(* Bounds of the model *)

MaxUsers == 2
MaxResetTokens == 1
MaxSessions == 2
MaxEnrollments == 2
MaxTicks == 1
MaxRandom == 34
MaxChanges == 3
MaxApiKeys == 3
MaxTime == 120
max_requests == 2

Emails == {"a@x.com", "b@x.com"}
Usernames == {"alice", "bob"}
Passwords == {"pw1", "pw2"}
Workers == {1, 2}

\* The new password each of the interleaved confirm requests carries.
new_password_of(w) == IF w = 1 THEN "pw1" ELSE "pw2"

\* The password each caller of the login flow registers with.
password_of(email) == IF email = "a@x.com" THEN "pw1" ELSE "pw2"

\* The username each caller of the reset and MFA flows registers under.
username_of(email) == IF email = "a@x.com" THEN "alice" ELSE "bob"

----------------------------------------------------------------------------
(* Program constants *)

ACCESS_TOKEN_EXPIRE_MINUTES == 30
REFRESH_TOKEN_EXPIRE_DAYS == 7
RESET_TOKEN_EXPIRE_HOURS == 1
BACKUP_CODE_COUNT == 10
valid_window == 1
window_seconds == 60

HTTP_200_OK == 200
HTTP_400_BAD_REQUEST == 400
HTTP_401_UNAUTHORIZED == 401
HTTP_404_NOT_FOUND == 404
HTTP_500_INTERNAL_SERVER_ERROR == 500
HTTP_429_TOO_MANY_REQUESTS == 429

----------------------------------------------------------------------------
(* Values *)

\* secrets.token_urlsafe(32): an opaque random string.
token_urlsafe(n) == [fmt |-> "opaque", n |-> n]

\* A token string no draw of the random source returns.
UnknownToken == token_urlsafe(0)

NoBody == [none |-> TRUE]

\* The row of lowest id among rows S, 0 when S is empty: Query.first().
first(S) == IF S = {} THEN 0 ELSE CHOOSE i \in S : \A j \in S : i <= j

\* The record of a request served.  seq tells a request from the one before it
\* when both are the same request with the same response.
Response(op, req, code, body) ==
    LET r == [seq |-> 0, op |-> op, req |-> req, code |-> code, body |-> body]
    IN  IF r = resp THEN [r EXCEPT !.seq = 1] ELSE r

\* A step that serves a request (every handler writes a new resp).
Served(op) == resp' # resp /\ resp'.op = op

----------------------------------------------------------------------------
(* app/core/security.py: password hashing *)

\* get_password_hash: a salted one-way digest; the salt is a fresh draw.
get_password_hash(password, salt) == [pw |-> password, salt |-> salt]

\* A comparison that accepts every password.
verify_password_any(password, digest) == TRUE

\* verify_password: whether the digest was made from this password.
verify_password(password, digest) == digest.pw = password

\* Direct calls of the hashing functions.
call_get_password_hash(password) ==
    /\ rng < MaxRandom
    /\ rng' = rng + 1
    /\ resp' = Response("get_password_hash", [password |-> password], 0,
                        [digest |-> get_password_hash(password, rng)])
    /\ UNCHANGED <<now, ticks, tables, pc, local, redemptions,
                   api_keys, requests>>

call_verify_password(password, digest) ==
    /\ resp' = Response("verify_password", [password |-> password, digest |-> digest],
                        0, [ok |-> verify_password(password, digest)])
    /\ UNCHANGED <<now, ticks, rng, tables, pc, local, redemptions,
                   api_keys, requests>>

\* The digests at hand: the one just made, or the one just verified.
DigestInputs ==
    IF resp.op = "get_password_hash" THEN {resp.body.digest}
    ELSE IF resp.op = "verify_password" THEN {resp.req.digest}
    ELSE {}

----------------------------------------------------------------------------
(* AuthService: accounts *)

\* An authentication that does not look at the password.
authenticate_user_ignoring_password(username, password) ==
    first({i \in 1..Len(users) :
              \/ users[i].username = username
              \/ users[i].email = username})

\* authenticate_user: one lookup over username and email, then the password.
authenticate_user(username, password) ==
    LET user == first({i \in 1..Len(users) :
                          \/ users[i].username = username
                          \/ users[i].email = username})
    IN  IF user = 0 \/ ~verify_password(password, users[user].hashed_password)
        THEN 0
        ELSE user

\* create_user: the new users row.
create_user(email, username, password) ==
    [id |-> Len(users) + 1, email |-> email, username |-> username,
     hashed_password |-> get_password_hash(password, rng), is_active |-> TRUE]

\* POST /register
register(email, username, password) ==
    LET existing_user == first({i \in 1..Len(users) :
                                   \/ users[i].email = email
                                   \/ users[i].username = username})
        req == [email |-> email, username |-> username, password |-> password]
    IN  \/ /\ existing_user # 0
           /\ resp' = Response("register", req, HTTP_400_BAD_REQUEST,
                  [detail |-> "User with this email or username already exists"])
           /\ UNCHANGED <<now, ticks, rng, tables, pc, local, redemptions,
                   api_keys, requests>>
        \/ /\ existing_user = 0
           /\ Len(users) < MaxUsers
           /\ users' = Append(users, create_user(email, username, password))
           /\ rng' = rng + 1
           /\ resp' = Response("register", req, HTTP_200_OK,
                  [message |-> "User created successfully", user_id |-> Len(users) + 1])
           /\ UNCHANGED <<now, ticks, user_sessions, mfa_settings,
                          password_reset_tokens, pc, local, redemptions,
                   api_keys, requests>>

\* The clock advances by d seconds.
Tick(d) ==
    /\ ticks < MaxTicks
    /\ now' = now + d
    /\ ticks' = ticks + 1
    /\ UNCHANGED <<rng, tables, resp, pc, local, redemptions,
                   api_keys, requests>>

----------------------------------------------------------------------------
(* Password reset *)

\* The account with this email (reset_password's lookup).
user_by_email(email) == first({i \in 1..Len(users) : users[i].email = email})

\* The response body of POST /reset-password for this email.
reset_password_response(email) ==
    IF user_by_email(email) = 0
    THEN [message |-> "If the email exists, a password reset link has been sent"]
    ELSE [message |-> "Password reset email sent",
          reset_token |-> token_urlsafe(rng),
          reset_link |-> [path |-> "/reset-password", token |-> token_urlsafe(rng)]]

\* POST /reset-password
reset_password(email) ==
    LET user == user_by_email(email)
        req == [email |-> email]
    IN  \/ /\ user = 0
           /\ resp' = Response("reset_password", req, HTTP_200_OK,
                               reset_password_response(email))
           /\ UNCHANGED <<now, ticks, rng, tables, pc, local, redemptions,
                   api_keys, requests>>
        \/ /\ user # 0
           /\ Len(password_reset_tokens) < MaxResetTokens
           /\ password_reset_tokens' = Append(password_reset_tokens,
                  [id |-> Len(password_reset_tokens) + 1,
                   user_id |-> users[user].id,
                   token |-> token_urlsafe(rng),
                   expires_at |-> now + RESET_TOKEN_EXPIRE_HOURS * 3600,
                   is_used |-> FALSE])
           /\ redemptions' = Append(redemptions, 0)
           /\ UNCHANGED <<api_keys, requests>>
           /\ rng' = rng + 1
           /\ resp' = Response("reset_password", req, HTTP_200_OK,
                               reset_password_response(email))
           /\ UNCHANGED <<now, ticks, users, user_sessions, mfa_settings, pc, local>>

\* A lookup that forgets the is_used filter.
find_reset_token_ignoring_used(token) ==
    first({i \in 1..Len(password_reset_tokens) :
              /\ password_reset_tokens[i].token = token
              /\ password_reset_tokens[i].expires_at > now})

\* confirm_password_reset's lookup: the unused, unexpired row with this token.
find_reset_token(token) ==
    first({i \in 1..Len(password_reset_tokens) :
              /\ password_reset_tokens[i].token = token
              /\ password_reset_tokens[i].is_used = FALSE
              /\ password_reset_tokens[i].expires_at > now})

\* The account a reset-token row belongs to.
user_by_id(id) == first({i \in 1..Len(users) : users[i].id = id})

\* POST /reset-password/confirm, served without interleaving.
confirm_password_reset(token, new_password) ==
    LET reset_token_record == find_reset_token(token)
        req == [token |-> token, new_password |-> new_password]
    IN  \/ /\ reset_token_record = 0
           /\ resp' = Response("confirm_password_reset", req, HTTP_400_BAD_REQUEST,
                               [detail |-> "Invalid or expired reset token"])
           /\ UNCHANGED <<now, ticks, rng, tables, pc, local, redemptions,
                   api_keys, requests>>
        \/ /\ reset_token_record # 0
           /\ LET user == user_by_id(password_reset_tokens[reset_token_record].user_id)
              IN  /\ user # 0
                  /\ users' = [users EXCEPT ![user].hashed_password =
                                   get_password_hash(new_password, rng)]
                  /\ password_reset_tokens' =
                        [password_reset_tokens EXCEPT ![reset_token_record].is_used = TRUE]
                  /\ redemptions' = [redemptions EXCEPT ![reset_token_record] = @ + 1]
                  /\ UNCHANGED <<api_keys, requests>>
                  /\ rng' = rng + 1
                  /\ resp' = Response("confirm_password_reset", req, HTTP_200_OK,
                                      [message |-> "Password reset successfully"])
                  /\ UNCHANGED <<now, ticks, user_sessions, mfa_settings, pc, local>>

\* The reset tokens a caller may present: every one issued, and an unknown one.
ResetTokenInputs ==
    {password_reset_tokens[i].token : i \in 1..Len(password_reset_tokens)}
        \cup {UnknownToken}

----------------------------------------------------------------------------
(* Password reset confirmation, request by request under interleaving.     *)
(* Each request w has its own ORM session (get_db): the rows it loaded and *)
(* the attributes it assigned are in local[w] until its commit.  A request *)
(* is served once: idle, found, pw_set, marked, done.                      *)

\* A session that writes every assignment through at once.
autocommit_on == TRUE

\* sessionmaker(autocommit=False, autoflush=False): an assignment to a loaded
\* row reaches the database at db.commit(), not before.
autocommit == FALSE

\* Lines 137-156: the lookups.  No row: the request ends with 400.
confirm_lookup(w, token, new_password) ==
    LET reset_token_record == find_reset_token(token)
        req == [token |-> token, new_password |-> new_password]
    IN  /\ pc[w] = "idle"
        /\ \/ /\ reset_token_record = 0
              /\ resp' = Response("confirm_password_reset", req, HTTP_400_BAD_REQUEST,
                                  [detail |-> "Invalid or expired reset token"])
              /\ pc' = [pc EXCEPT ![w] = "done"]
              /\ UNCHANGED local
           \/ /\ reset_token_record # 0
              /\ LET user == user_by_id(password_reset_tokens[reset_token_record].user_id)
                 IN  /\ user # 0
                     /\ local' = [local EXCEPT ![w] =
                            [req |-> req,
                             reset_token_record |-> reset_token_record,
                             user |-> user,
                             hashed_password |-> users[user].hashed_password,
                             is_used |-> password_reset_tokens[reset_token_record].is_used]]
              /\ pc' = [pc EXCEPT ![w] = "found"]
              /\ UNCHANGED resp
        /\ UNCHANGED <<now, ticks, rng, tables, redemptions,
                   api_keys, requests>>

\* Line 159: user.hashed_password = get_password_hash(new_password)
confirm_set_password(w) ==
    /\ pc[w] = "found"
    /\ LET digest == get_password_hash(local[w].req.new_password, rng)
       IN  /\ local' = [local EXCEPT ![w].hashed_password = digest]
           /\ users' = IF autocommit
                       THEN [users EXCEPT ![local[w].user].hashed_password = digest]
                       ELSE users
    /\ rng' = rng + 1
    /\ pc' = [pc EXCEPT ![w] = "pw_set"]
    /\ UNCHANGED <<now, ticks, user_sessions, mfa_settings, password_reset_tokens,
                   resp, redemptions,
                   api_keys, requests>>

\* Line 162: reset_token_record.is_used = True
confirm_mark_used(w) ==
    /\ pc[w] = "pw_set"
    /\ local' = [local EXCEPT ![w].is_used = TRUE]
    /\ password_reset_tokens' =
           IF autocommit
           THEN [password_reset_tokens EXCEPT ![local[w].reset_token_record].is_used = TRUE]
           ELSE password_reset_tokens
    /\ pc' = [pc EXCEPT ![w] = "marked"]
    /\ UNCHANGED <<now, ticks, rng, users, user_sessions, mfa_settings, resp, redemptions,
                   api_keys, requests>>

\* Line 164: db.commit() writes both assignments in one transaction; 200.
confirm_commit(w) ==
    /\ pc[w] = "marked"
    /\ users' = [users EXCEPT ![local[w].user].hashed_password = local[w].hashed_password]
    /\ password_reset_tokens' =
           [password_reset_tokens EXCEPT
                ![local[w].reset_token_record].is_used = local[w].is_used]
    /\ redemptions' = [redemptions EXCEPT ![local[w].reset_token_record] = @ + 1]
    /\ UNCHANGED <<api_keys, requests>>
    /\ resp' = Response("confirm_password_reset", local[w].req, HTTP_200_OK,
                        [message |-> "Password reset successfully"])
    /\ pc' = [pc EXCEPT ![w] = "done"]
    /\ local' = [local EXCEPT ![w] = NoBody]
    /\ UNCHANGED <<now, ticks, rng, user_sessions, mfa_settings>>

\* The request is abandoned before its commit: get_db closes the session,
\* which discards what was assigned.
confirm_interrupted(w) ==
    /\ pc[w] \in {"found", "pw_set", "marked"}
    /\ pc' = [pc EXCEPT ![w] = "done"]
    /\ local' = [local EXCEPT ![w] = NoBody]
    /\ UNCHANGED <<now, ticks, rng, tables, resp, redemptions,
                   api_keys, requests>>

----------------------------------------------------------------------------
(* app/core/security.py: signed tokens *)

\* str(user_id) and int(sub): the subject travels as a string.
str(n) == [digits |-> n]
int(s) == s.digits

\* None, the result of a failed verification.
None == [none |-> TRUE]

\* create_access_token / create_refresh_token with an explicit expires_delta:
\* a signed token carrying sub, type and exp.
issue(subject, kind, ttl) ==
    [fmt |-> "jwt", sub |-> str(subject), type |-> kind, exp |-> now + ttl]

\* create_access_token with the default lifetime
create_access_token(subject) ==
    issue(subject, "access", ACCESS_TOKEN_EXPIRE_MINUTES * 60)

\* create_refresh_token with the default lifetime
create_refresh_token(subject) ==
    issue(subject, "refresh", REFRESH_TOKEN_EXPIRE_DAYS * 86400)

\* A token whose last characters were overwritten: the signature no longer
\* matches.
tamper(token) == [token EXCEPT !.fmt = "tampered"]

\* Verifications that forget one of the checks.
verify_token_any_type(token, token_type) ==
    IF token.fmt = "jwt" /\ now < token.exp THEN token.sub ELSE None

verify_token_ignoring_expiry(token, token_type) ==
    IF token.fmt = "jwt" /\ token.type = token_type THEN token.sub ELSE None

\* verify_token: the subject of a well-signed token of the expected type that
\* has not expired, None otherwise.
verify_token(token, token_type) ==
    IF /\ token.fmt = "jwt"
       /\ token.type = token_type
       /\ now < token.exp
    THEN token.sub
    ELSE None

\* Direct calls of the token functions.
call_issue(subject, kind, ttl) ==
    /\ resp' = Response("issue", [subject |-> subject, kind |-> kind, ttl |-> ttl],
                        0, [token |-> issue(subject, kind, ttl), issued_at |-> now])
    /\ UNCHANGED <<now, ticks, rng, tables, pc, local, redemptions,
                   api_keys, requests>>

call_verify_token(token, token_type) ==
    /\ resp' = Response("verify_token", [token |-> token, token_type |-> token_type],
                        0, [subject |-> verify_token(token, token_type)])
    /\ UNCHANGED <<now, ticks, rng, tables, pc, local, redemptions,
                   api_keys, requests>>

\* The arguments of the direct calls: subjects, kinds, lifetimes, and the tokens
\* at hand (the one just issued or just verified, and a tampered copy).
Subjects == {1, 123}
Kinds == {"access", "refresh"}
Lifetimes == {-1, ACCESS_TOKEN_EXPIRE_MINUTES * 60, REFRESH_TOKEN_EXPIRE_DAYS * 86400}
TokenCallInputs ==
    LET held == IF resp.op = "issue" THEN {resp.body.token}
                ELSE IF resp.op = "verify_token" THEN {resp.req.token}
                ELSE {}
    IN  {UnknownToken} \cup held \cup {tamper(t) : t \in held}

----------------------------------------------------------------------------
(* AuthService: sessions *)

\* A session that is created already inactive.
create_session_inactive(user) ==
    [id |-> Len(user_sessions) + 1,
     user_id |-> users[user].id,
     session_token |-> token_urlsafe(rng),
     refresh_token |-> token_urlsafe(rng + 1),
     is_active |-> FALSE,
     expires_at |-> now + REFRESH_TOKEN_EXPIRE_DAYS * 86400]

\* create_session: the new user_sessions row (two draws of the random source).
create_session(user) ==
    [id |-> Len(user_sessions) + 1,
     user_id |-> users[user].id,
     session_token |-> token_urlsafe(rng),
     refresh_token |-> token_urlsafe(rng + 1),
     is_active |-> TRUE,
     expires_at |-> now + REFRESH_TOKEN_EXPIRE_DAYS * 86400]

\* A lookup that forgets the expiry filter.
get_user_by_token_ignoring_expiry(token) ==
    LET session == first({i \in 1..Len(user_sessions) :
                             /\ user_sessions[i].session_token = token
                             /\ user_sessions[i].is_active = TRUE})
    IN  IF session = 0 THEN 0 ELSE user_by_id(user_sessions[session].user_id)

\* get_user_by_token: the owner of the active, unexpired session, or 0 (None).
get_user_by_token(token) ==
    LET session == first({i \in 1..Len(user_sessions) :
                             /\ user_sessions[i].session_token = token
                             /\ user_sessions[i].is_active = TRUE
                             /\ user_sessions[i].expires_at > now})
    IN  IF session = 0 THEN 0 ELSE user_by_id(user_sessions[session].user_id)

\* A lookup that matches active sessions only.
session_by_token_if_active(token) ==
    first({i \in 1..Len(user_sessions) :
              /\ user_sessions[i].session_token = token
              /\ user_sessions[i].is_active = TRUE})

\* revoke_session's lookup: the session with this token, active or not.
session_by_token(token) ==
    first({i \in 1..Len(user_sessions) : user_sessions[i].session_token = token})

\* revoke_session's write: the table after the call.
revoke_session(token) ==
    LET session == session_by_token(token)
    IN  IF session # 0
        THEN [user_sessions EXCEPT ![session].is_active = FALSE]
        ELSE user_sessions

\* A direct call of AuthService.get_user_by_token (resolve).
call_get_user_by_token(token) ==
    /\ resp' = Response("get_user_by_token", [token |-> token], 0,
                        [user |-> get_user_by_token(token)])
    /\ UNCHANGED <<now, ticks, rng, tables, pc, local, redemptions,
                   api_keys, requests>>

\* A direct call of AuthService.revoke_session (revoke).
call_revoke_session(token) ==
    /\ user_sessions' = revoke_session(token)
    /\ resp' = Response("revoke_session", [token |-> token], 0,
                        [result |-> session_by_token(token) # 0])
    /\ UNCHANGED <<now, ticks, rng, users, mfa_settings, password_reset_tokens,
                   pc, local, redemptions,
                   api_keys, requests>>

\* POST /login
login(username, password) ==
    LET user == authenticate_user(username, password)
        req == [username |-> username, password |-> password]
    IN  \/ /\ user = 0
           /\ resp' = Response("login", req, HTTP_401_UNAUTHORIZED,
                               [detail |-> "Incorrect username or password"])
           /\ UNCHANGED <<now, ticks, rng, tables, pc, local, redemptions,
                   api_keys, requests>>
        \/ /\ user # 0
           /\ IF ~users[user].is_active
              THEN /\ resp' = Response("login", req, HTTP_400_BAD_REQUEST,
                                       [detail |-> "Inactive user"])
                   /\ UNCHANGED <<rng, user_sessions>>
              ELSE /\ Len(user_sessions) < MaxSessions
                   /\ user_sessions' = Append(user_sessions, create_session(user))
                   /\ rng' = rng + 2
                   /\ resp' = Response("login", req, HTTP_200_OK,
                          [access_token |-> create_access_token(users[user].id),
                           refresh_token |-> create_refresh_token(users[user].id),
                           token_type |-> "bearer"])
           /\ UNCHANGED <<now, ticks, users, mfa_settings, password_reset_tokens,
                          pc, local, redemptions,
                   api_keys, requests>>

\* POST /logout: token is the request's bearer token.
logout(token) ==
    LET success == session_by_token(token) # 0
    IN  /\ user_sessions' = revoke_session(token)
        /\ resp' = IF ~success
                   THEN Response("logout", [token |-> token], HTTP_400_BAD_REQUEST,
                                 [detail |-> "Could not revoke session"])
                   ELSE Response("logout", [token |-> token], HTTP_200_OK,
                                 [message |-> "Successfully logged out"])
        /\ UNCHANGED <<now, ticks, rng, users, mfa_settings, password_reset_tokens,
                       pc, local, redemptions,
                   api_keys, requests>>

\* A check that forgets is_active.
not_found_or_inactive_ignoring_active(user) == user = 0

\* not user or not user.is_active
not_found_or_inactive(user) == user = 0 \/ ~users[user].is_active

\* A refresh that also asks for an active session of the account.
refresh_token_needing_session(token) ==
    LET user_id == verify_token(token, "refresh")
        user    == IF user_id = None THEN 0 ELSE user_by_id(int(user_id))
        req     == [token |-> token]
    IN  /\ resp' = IF user_id = None
                   THEN Response("refresh_token", req, HTTP_401_UNAUTHORIZED,
                                 [detail |-> "Invalid refresh token"])
                   ELSE IF \/ not_found_or_inactive(user)
                           \/ ~\E i \in 1..Len(user_sessions) :
                                  /\ user_sessions[i].user_id = users[user].id
                                  /\ user_sessions[i].is_active
                   THEN Response("refresh_token", req, HTTP_401_UNAUTHORIZED,
                                 [detail |-> "User not found or inactive"])
                   ELSE Response("refresh_token", req, HTTP_200_OK,
                          [access_token |-> create_access_token(users[user].id),
                           refresh_token |-> create_refresh_token(users[user].id),
                           token_type |-> "bearer"])
        /\ UNCHANGED <<now, ticks, rng, tables, pc, local, redemptions,
                   api_keys, requests>>

\* POST /refresh: new signed tokens for the subject of a refresh token.  No
\* table is read but users, none is written.
refresh_token(token) ==
    LET user_id == verify_token(token, "refresh")
        user    == IF user_id = None THEN 0 ELSE user_by_id(int(user_id))
        req     == [token |-> token]
    IN  /\ resp' = IF user_id = None
                   THEN Response("refresh_token", req, HTTP_401_UNAUTHORIZED,
                                 [detail |-> "Invalid refresh token"])
                   ELSE IF not_found_or_inactive(user)
                   THEN Response("refresh_token", req, HTTP_401_UNAUTHORIZED,
                                 [detail |-> "User not found or inactive"])
                   ELSE Response("refresh_token", req, HTTP_200_OK,
                          [access_token |-> create_access_token(users[user].id),
                           refresh_token |-> create_refresh_token(users[user].id),
                           token_type |-> "bearer"])
        /\ UNCHANGED <<now, ticks, rng, tables, pc, local, redemptions,
                   api_keys, requests>>

\* The signed tokens the login that opened session i returned.
login_tokens(i) ==
    {[fmt |-> "jwt", sub |-> str(user_sessions[i].user_id), type |-> "refresh",
      exp |-> user_sessions[i].expires_at],
     [fmt |-> "jwt", sub |-> str(user_sessions[i].user_id), type |-> "access",
      exp |-> user_sessions[i].expires_at - REFRESH_TOKEN_EXPIRE_DAYS * 86400
                  + ACCESS_TOKEN_EXPIRE_MINUTES * 60]}

\* The signed tokens a client may hold: those its logins returned, those the
\* last refresh returned, the one it presented last, and a string that was
\* never issued.
SignedTokenInputs ==
    {UnknownToken}
        \cup UNION {login_tokens(i) : i \in 1..Len(user_sessions)}
        \cup (IF resp.op = "refresh_token" /\ resp.code = HTTP_200_OK
              THEN {resp.body.access_token, resp.body.refresh_token}
              ELSE {})
        \cup (IF resp.op \in {"refresh_token", "verify_token"}
              THEN {resp.req.token}
              ELSE {})

\* Those of them a client would take for refresh tokens.
RefreshTokenInputs ==
    {t \in SignedTokenInputs : t.fmt = "jwt" => t.type = "refresh"}

\* The session-token strings a caller of the service may present.
SessionTokenInputs ==
    {user_sessions[i].session_token : i \in 1..Len(user_sessions)}
        \cup {user_sessions[i].refresh_token : i \in 1..Len(user_sessions)}
        \cup {UnknownToken}

\* The bearer tokens a client may present: those the last login returned, and
\* a string of its own.  No response carries a session token.
BearerInputs ==
    {UnknownToken}
        \cup (IF resp.op = "login" /\ resp.code = HTTP_200_OK
              THEN {resp.body.access_token, resp.body.refresh_token}
              ELSE {})

----------------------------------------------------------------------------
(* MFA.  current_user is the account the get_current_user dependency hands  *)
(* to the endpoint: a row of users.                                         *)

\* pyotp.random_base32(): a random TOTP secret.
random_base32(n) == [fmt |-> "base32", n |-> n]

\* The backup_codes column: NULL, or json.dumps of a list of codes.
NULL == [json |-> FALSE, codes |-> <<>>]
json_dumps(codes) == [json |-> TRUE, codes |-> codes]

\* [secrets.token_urlsafe(8).upper() for _ in range(10)]
generate_backup_codes(n) == [i \in 1..BACKUP_CODE_COUNT |-> token_urlsafe(n + i - 1)]

\* The TOTP time step of an instant (pyotp's interval of 30 seconds).
timecode(t) == t \div 30

\* pyotp TOTP.at: the code of a secret at a time step.  Codes of different
\* secrets or steps differ.
totp_at(secret, counter) == [secret |-> secret, counter |-> counter]

\* A verification that tolerates two steps of skew on either side.
totp_verify_two_steps(secret, code) ==
    \E i \in -2..2 : code = totp_at(secret, timecode(now) + i)

\* pyotp TOTP.verify(code, valid_window=1): the code of the current step or
\* of one of the valid_window steps on either side.
totp_verify(secret, code) ==
    \E i \in -valid_window..valid_window : code = totp_at(secret, timecode(now) + i)

\* user.mfa_settings and the endpoints' query: the user's enrollment row.
mfa_settings_of(user) ==
    first({i \in 1..Len(mfa_settings) : mfa_settings[i].user_id = users[user].id})

\* A check that forgets the is_enabled test.
AuthService_verify_mfa_ignoring_enabled(user, code) ==
    LET m == mfa_settings_of(user)
    IN  IF m = 0 THEN FALSE ELSE totp_verify(mfa_settings[m].totp_secret, code)

\* AuthService.verify_mfa
AuthService_verify_mfa(user, code) ==
    LET m == mfa_settings_of(user)
    IN  IF m = 0 \/ ~mfa_settings[m].is_enabled
        THEN FALSE
        ELSE totp_verify(mfa_settings[m].totp_secret, code)

\* A direct call of AuthService.verify_mfa.
call_verify_mfa(user, code) ==
    /\ resp' = Response("AuthService.verify_mfa", [user |-> user, code |-> code], 0,
                        [result |-> AuthService_verify_mfa(user, code)])
    /\ UNCHANGED <<now, ticks, rng, tables, pc, local, redemptions,
                   api_keys, requests>>

\* POST /mfa/setup.  The response model MFASetup keeps totp_secret and qr_code.
setup_mfa(current_user) ==
    /\ Len(mfa_settings) < MaxEnrollments
    /\ mfa_settings' = Append(mfa_settings,
           [id |-> Len(mfa_settings) + 1,
            user_id |-> users[current_user].id,
            totp_secret |-> random_base32(rng),
            backup_codes |-> json_dumps(generate_backup_codes(rng + 1)),
            is_enabled |-> FALSE])
    /\ rng' = rng + 1 + BACKUP_CODE_COUNT
    /\ resp' = Response("mfa_setup", [user |-> current_user], HTTP_200_OK,
           [totp_secret |-> random_base32(rng),
            qr_code |-> [name |-> users[current_user].email,
                         secret |-> random_base32(rng)]])
    /\ UNCHANGED <<now, ticks, users, user_sessions, password_reset_tokens,
                   pc, local, redemptions,
                   api_keys, requests>>

\* The fixture test_mfa_user: an enabled enrollment for an account without one.
test_mfa_user(user) ==
    /\ Len(mfa_settings) < MaxEnrollments
    /\ mfa_settings_of(user) = 0
    /\ mfa_settings' = Append(mfa_settings,
           [id |-> Len(mfa_settings) + 1,
            user_id |-> users[user].id,
            totp_secret |-> random_base32(rng),
            backup_codes |-> NULL,
            is_enabled |-> TRUE])
    /\ rng' = rng + 1
    /\ UNCHANGED <<now, ticks, users, user_sessions, password_reset_tokens,
                   resp, pc, local, redemptions,
                   api_keys, requests>>

\* A write that is never committed.
set_is_enabled_uncommitted(m, value) == mfa_settings

\* mfa_settings.is_enabled = value; db.commit()
set_is_enabled(m, value) ==
    IF m # 0 THEN [mfa_settings EXCEPT ![m].is_enabled = value] ELSE mfa_settings

\* POST /mfa/verify
verify_mfa(current_user, code) ==
    LET req == [user |-> current_user, code |-> code]
    IN  /\ \/ /\ ~AuthService_verify_mfa(current_user, code)
              /\ resp' = Response("mfa_verify", req, HTTP_400_BAD_REQUEST,
                                  [detail |-> "Invalid MFA code"])
              /\ UNCHANGED mfa_settings
           \/ /\ AuthService_verify_mfa(current_user, code)
              /\ mfa_settings' = set_is_enabled(mfa_settings_of(current_user), TRUE)
              /\ resp' = Response("mfa_verify", req, HTTP_200_OK,
                                  [message |-> "MFA enabled successfully"])
        /\ UNCHANGED <<now, ticks, rng, users, user_sessions, password_reset_tokens,
                       pc, local, redemptions,
                   api_keys, requests>>

\* POST /mfa/disable
disable_mfa(current_user, code) ==
    LET req == [user |-> current_user, code |-> code]
    IN  /\ \/ /\ ~AuthService_verify_mfa(current_user, code)
              /\ resp' = Response("mfa_disable", req, HTTP_400_BAD_REQUEST,
                                  [detail |-> "Invalid MFA code"])
              /\ UNCHANGED mfa_settings
           \/ /\ AuthService_verify_mfa(current_user, code)
              /\ mfa_settings' = set_is_enabled(mfa_settings_of(current_user), FALSE)
              /\ resp' = Response("mfa_disable", req, HTTP_200_OK,
                                  [message |-> "MFA disabled successfully"])
        /\ UNCHANGED <<now, ticks, rng, users, user_sessions, password_reset_tokens,
                       pc, local, redemptions,
                   api_keys, requests>>

\* The code "000000": the code of no secret.
BadCode == totp_at(random_base32(0), 0)

\* The codes an account may present: those of its enrolled secrets for the
\* current step, the next one and the one two steps back, and a bad one.
CodeInputs(user) ==
    {totp_at(mfa_settings[i].totp_secret, timecode(now) + d) :
         i \in {j \in 1..Len(mfa_settings) : mfa_settings[j].user_id = users[user].id},
         d \in {-2, 0, 1}}
        \cup {BadCode}

----------------------------------------------------------------------------
(* Profile updates and direct calls of authenticate_user *)

\* A users table without unique indexes.
violates_unique_never(user, field, value) == FALSE

\* The unique indexes of users.email and users.username: whether another
\* row already holds the value in that column.
violates_unique(user, field, value) ==
    \E i \in 1..Len(users) :
       /\ i # user
       /\ IF field = "email" THEN users[i].email = value ELSE users[i].username = value

\* PUT /users/me with one field set.  A value another row holds in the same
\* column fails the commit; the general exception handler answers 500.
update_user_me(current_user, field, value) ==
    LET req == [user |-> current_user, field |-> field, value |-> value]
    IN  /\ \/ /\ violates_unique(current_user, field, value)
              /\ resp' = Response("update_user_me", req, HTTP_500_INTERNAL_SERVER_ERROR,
                                  [detail |-> "Internal server error"])
              /\ UNCHANGED users
           \/ /\ ~violates_unique(current_user, field, value)
              /\ users' = IF field = "email"
                          THEN [users EXCEPT ![current_user].email = value]
                          ELSE [users EXCEPT ![current_user].username = value]
              /\ resp' = Response("update_user_me", req, HTTP_200_OK,
                                  [id |-> users[current_user].id,
                                   email |-> users'[current_user].email,
                                   username |-> users'[current_user].username])
        /\ UNCHANGED <<now, ticks, rng, user_sessions, mfa_settings,
                       password_reset_tokens, pc, local, redemptions,
                   api_keys, requests>>

\* test_login_inactive_user: the account is made inactive in the database.
deactivate_user(user) ==
    /\ users[user].is_active
    /\ users' = [users EXCEPT ![user].is_active = FALSE]
    /\ UNCHANGED <<now, ticks, rng, user_sessions, mfa_settings,
                   password_reset_tokens, resp, pc, local, redemptions,
                   api_keys, requests>>

\* A direct call of AuthService.authenticate_user.
call_authenticate_user(username, password) ==
    /\ resp' = Response("authenticate_user", [username |-> username, password |-> password],
                        0, [user |-> authenticate_user(username, password)])
    /\ UNCHANGED <<now, ticks, rng, tables, pc, local, redemptions,
                   api_keys, requests>>

\* A change of password that does not ask for the current one.
change_password_unchecked(current_user, current_password, new_password) ==
    /\ rng < MaxRandom
    /\ users' = [users EXCEPT ![current_user].hashed_password =
                                get_password_hash(new_password, rng)]
    /\ rng' = rng + 1
    /\ resp' = Response("change_password",
                        [user |-> current_user, current_password |-> current_password,
                         new_password |-> new_password],
                        HTTP_200_OK, [message |-> "Password changed successfully"])
    /\ UNCHANGED <<now, ticks, user_sessions, mfa_settings, password_reset_tokens,
                   pc, local, redemptions,
                   api_keys, requests>>

\* POST /change-password, current_user being the authenticated account.
change_password(current_user, current_password, new_password) ==
    LET req == [user |-> current_user, current_password |-> current_password,
                new_password |-> new_password]
    IN  /\ IF ~verify_password(current_password, users[current_user].hashed_password)
           THEN /\ resp' = Response("change_password", req, HTTP_400_BAD_REQUEST,
                                    [detail |-> "Incorrect current password"])
                /\ UNCHANGED <<users, rng>>
           ELSE /\ rng < MaxRandom
                /\ users' = [users EXCEPT ![current_user].hashed_password =
                                            get_password_hash(new_password, rng)]
                /\ rng' = rng + 1
                /\ resp' = Response("change_password", req, HTTP_200_OK,
                                    [message |-> "Password changed successfully"])
        /\ UNCHANGED <<now, ticks, user_sessions, mfa_settings, password_reset_tokens,
                       pc, local, redemptions,
                   api_keys, requests>>

----------------------------------------------------------------------------
(* endpoints/users.py: API keys *)

\* hashlib.sha256(api_key.encode()).hexdigest()
sha256(api_key) == [sha256 |-> api_key]

KeyNames == {"ci"}

\* POST /api-keys: a new key of the caller; the key itself is returned once.
create_api_key(current_user, key_name) ==
    LET api_key == token_urlsafe(rng)
        db_api_key == [id |-> Len(api_keys) + 1,
                       user_id |-> users[current_user].id,
                       key_name |-> key_name,
                       key_hash |-> sha256(api_key),
                       is_active |-> TRUE]
    IN  /\ Len(api_keys) < MaxApiKeys
        /\ api_keys' = Append(api_keys, db_api_key)
        /\ rng' = rng + 1
        /\ resp' = Response("create_api_key",
                            [user |-> current_user, key_name |-> key_name],
                            HTTP_200_OK,
                            [id |-> db_api_key.id, key_name |-> key_name,
                             is_active |-> db_api_key.is_active, api_key |-> api_key])
        /\ UNCHANGED <<now, ticks, tables, pc, local, redemptions, requests>>

\* A lookup by id alone.
find_api_key_of_anyone(key_id, user_id) ==
    first({i \in 1..Len(api_keys) : api_keys[i].id = key_id})

\* filter(APIKey.id == key_id, APIKey.user_id == current_user.id).first()
find_api_key(key_id, user_id) ==
    first({i \in 1..Len(api_keys) :
              /\ api_keys[i].id = key_id
              /\ api_keys[i].user_id = user_id})

\* DELETE /api-keys/{key_id}
revoke_api_key(current_user, key_id) ==
    LET api_key == find_api_key(key_id, users[current_user].id)
        req == [user |-> current_user, key_id |-> key_id]
    IN  /\ IF api_key = 0
           THEN /\ resp' = Response("revoke_api_key", req, HTTP_404_NOT_FOUND,
                                    [detail |-> "API key not found"])
                /\ UNCHANGED api_keys
           ELSE /\ api_keys' = [api_keys EXCEPT ![api_key].is_active = FALSE]
                /\ resp' = Response("revoke_api_key", req, HTTP_200_OK,
                                    [message |-> "API key revoked successfully"])
        /\ UNCHANGED <<now, ticks, rng, tables, pc, local, redemptions, requests>>

----------------------------------------------------------------------------
(* MFA backup codes *)

\* Python truth of the backup_codes column: false for NULL; json.dumps never
\* yields the empty string, so every stored list, the empty one included, is
\* true.
truthy(column) == column.json

\* json.loads of the backup_codes column.
json_loads(column) == column.codes

\* list.remove(x): the list without its first occurrence of x.
remove(list, x) ==
    LET k == first({i \in 1..Len(list) : list[i] = x})
    IN  SubSeq(list, 1, k - 1) \o SubSeq(list, k + 1, Len(list))

\* A regeneration that keeps the codes already stored.
regenerated_keeping_old(m, n) ==
    json_dumps(json_loads(mfa_settings[m].backup_codes) \o generate_backup_codes(n))

\* The column regenerate_backup_codes writes.
regenerated(m, n) == json_dumps(generate_backup_codes(n))

\* POST /mfa/regenerate-backup-codes
regenerate_backup_codes(current_user) ==
    LET m == mfa_settings_of(current_user)
        req == [user |-> current_user]
    IN  \/ /\ m = 0
           /\ resp' = Response("regenerate_backup_codes", req, HTTP_404_NOT_FOUND,
                               [detail |-> "MFA not set up for this user"])
           /\ UNCHANGED <<now, ticks, rng, tables, pc, local, redemptions,
                   api_keys, requests>>
        \/ /\ m # 0
           /\ rng + BACKUP_CODE_COUNT <= MaxRandom
           /\ mfa_settings' = [mfa_settings EXCEPT ![m].backup_codes = regenerated(m, rng)]
           /\ rng' = rng + BACKUP_CODE_COUNT
           /\ resp' = Response("regenerate_backup_codes", req, HTTP_200_OK,
                               [backup_codes |-> generate_backup_codes(rng)])
           /\ UNCHANGED <<now, ticks, users, user_sessions, password_reset_tokens,
                          pc, local, redemptions,
                   api_keys, requests>>

\* A membership test that every code passes.
contains_anything(list, x) == TRUE

\* x in list
contains(list, x) == \E i \in 1..Len(list) : list[i] = x

\* not (not mfa_settings or not mfa_settings.backup_codes)
backup_codes_available(m) == m # 0 /\ truthy(mfa_settings[m].backup_codes)

\* Whether verify_backup_code accepts the code for the account.
backup_code_accepted(user, code) ==
    LET m == mfa_settings_of(user)
    IN  /\ backup_codes_available(m)
        /\ contains(json_loads(mfa_settings[m].backup_codes), code)

\* POST /mfa/verify-backup-code
verify_backup_code(current_user, code) ==
    LET m == mfa_settings_of(current_user)
        req == [user |-> current_user, code |-> code]
    IN  /\ \/ /\ ~backup_codes_available(m)
              /\ resp' = Response("verify_backup_code", req, HTTP_404_NOT_FOUND,
                                  [detail |-> "No backup codes available"])
              /\ UNCHANGED mfa_settings
           \/ /\ backup_codes_available(m)
              /\ LET backup_codes == json_loads(mfa_settings[m].backup_codes)
                 IN  \/ /\ ~contains(backup_codes, code)
                        /\ resp' = Response("verify_backup_code", req, HTTP_400_BAD_REQUEST,
                                            [detail |-> "Invalid backup code"])
                        /\ UNCHANGED mfa_settings
                     \/ /\ contains(backup_codes, code)
                        /\ mfa_settings' = [mfa_settings EXCEPT ![m].backup_codes =
                                               json_dumps(remove(backup_codes, code))]
                        /\ resp' = Response("verify_backup_code", req, HTTP_200_OK,
                                            [message |-> "Backup code verified successfully"])
        /\ UNCHANGED <<now, ticks, rng, users, user_sessions, password_reset_tokens,
                       pc, local, redemptions,
                   api_keys, requests>>

\* The backup codes an account presents: the first and the last code stored
\* in each of its enrollment rows, the code of the request just served, and
\* one that was never issued.
BackupCodeInputs(user) ==
    {UnknownToken}
        \cup UNION {LET codes == json_loads(mfa_settings[i].backup_codes)
                    IN  IF codes = <<>> THEN {} ELSE {codes[1], codes[Len(codes)]} :
                    i \in {j \in 1..Len(mfa_settings) :
                              mfa_settings[j].user_id = users[user].id}}
        \cup (IF resp.op = "verify_backup_code" THEN {resp.req.code} ELSE {})

----------------------------------------------------------------------------
(* verify_backup_code as two requests interleave on one database: the read  *)
(* and the tests (lines 139-155), then the write-back and commit (157-162).  *)

\* Lines 139-155: read the enrollment, test the guard and the membership.
backup_query(w, current_user, code) ==
    LET m == mfa_settings_of(current_user)
        req == [user |-> current_user, code |-> code]
    IN  /\ pc[w] = "idle"
        /\ \/ /\ ~backup_codes_available(m)
              /\ resp' = Response("verify_backup_code", req, HTTP_404_NOT_FOUND,
                                  [detail |-> "No backup codes available"])
              /\ pc' = [pc EXCEPT ![w] = "done"]
              /\ local' = [local EXCEPT ![w] = [req |-> req, status_code |-> HTTP_404_NOT_FOUND]]
           \/ /\ backup_codes_available(m)
              /\ ~contains(json_loads(mfa_settings[m].backup_codes), code)
              /\ resp' = Response("verify_backup_code", req, HTTP_400_BAD_REQUEST,
                                  [detail |-> "Invalid backup code"])
              /\ pc' = [pc EXCEPT ![w] = "done"]
              /\ local' = [local EXCEPT ![w] = [req |-> req, status_code |-> HTTP_400_BAD_REQUEST]]
           \/ /\ backup_codes_available(m)
              /\ contains(json_loads(mfa_settings[m].backup_codes), code)
              /\ pc' = [pc EXCEPT ![w] = "code_found"]
              /\ local' = [local EXCEPT ![w] =
                     [req |-> req,
                      mfa_settings |-> m,
                      backup_codes |-> json_loads(mfa_settings[m].backup_codes)]]
              /\ UNCHANGED resp
        /\ UNCHANGED <<now, ticks, rng, tables, redemptions,
                   api_keys, requests>>

\* Lines 157-162: remove the code from the list read, write it back, commit.
backup_remove_commit(w) ==
    /\ pc[w] = "code_found"
    /\ mfa_settings' = [mfa_settings EXCEPT ![local[w].mfa_settings].backup_codes =
                           json_dumps(remove(local[w].backup_codes, local[w].req.code))]
    /\ resp' = Response("verify_backup_code", local[w].req, HTTP_200_OK,
                        [message |-> "Backup code verified successfully"])
    /\ pc' = [pc EXCEPT ![w] = "done"]
    /\ local' = [local EXCEPT ![w] = [req |-> local[w].req, status_code |-> HTTP_200_OK]]
    /\ UNCHANGED <<now, ticks, rng, users, user_sessions, password_reset_tokens,
                   redemptions,
                   api_keys, requests>>

\* The codes presented to AuthService.verify_mfa directly: those of every
\* enrolled secret for the current step and up to two steps on either side,
\* and a bad one.
WideCodeInputs ==
    {totp_at(mfa_settings[i].totp_secret, timecode(now) + d) :
         i \in 1..Len(mfa_settings), d \in -2..2}
        \cup {BadCode}

----------------------------------------------------------------------------------------------------------------------------------------
(* core/middleware.py: RateLimitMiddleware *)

ClientIps == {"10.0.0.1", "10.0.0.2"}

\* time.time() moves on between requests and while a request is suspended.
Elapse(d) ==
    /\ now + d <= MaxTime
    /\ now' = now + d
    /\ UNCHANGED <<ticks, rng, tables, resp, pc, local, redemptions, api_keys, requests>>

\* A window that still counts a timestamp exactly window_seconds old.
in_window_inclusive(t, current_time) == t >= current_time - window_seconds

\* t > current_time - self.window_seconds
in_window(t, current_time) == t > current_time - window_seconds

\* Clean old entries: the map rebuilt without the IPs whose timestamps are all
\* outside the window.
cleaned(current_time) ==
    [ip \in {i \in DOMAIN requests :
                \E k \in 1..Len(requests[i]) : in_window(requests[i][k], current_time)}
        |-> requests[ip]]

\* The map after the cleanup, with the client's own list created if missing and
\* filtered to the window.
filtered(client_ip, current_time) ==
    LET c   == cleaned(current_time)
        own == IF client_ip \in DOMAIN c THEN c[client_ip] ELSE <<>>
    IN  [ip \in DOMAIN c \cup {client_ip} |->
            IF ip = client_ip
            THEN SelectSeq(own, LAMBDA t : in_window(t, current_time))
            ELSE c[ip]]

RateLimitExceededError ==
    [raised |-> "RateLimitExceededError",
     detail |-> "Rate limit exceeded. Please try again later.",
     forwarded |-> FALSE]

KeyError == [raised |-> "KeyError", forwarded |-> TRUE]

\* The response of the handler with the rate-limit headers added.
with_headers(timestamps, current_time) ==
    [forwarded |-> TRUE,
     X_RateLimit_Limit |-> max_requests,
     X_RateLimit_Remaining |-> max_requests - Len(timestamps),
     X_RateLimit_Reset |-> current_time + window_seconds]

\* dispatch, the handler answering without suspension.
dispatch(client_ip) ==
    LET current_time == now
        r   == filtered(client_ip, current_time)
        req == [client_ip |-> client_ip, current_time |-> current_time]
    IN  /\ IF Len(r[client_ip]) >= max_requests
           THEN /\ requests' = r
                /\ resp' = Response("dispatch", req, HTTP_429_TOO_MANY_REQUESTS,
                                    RateLimitExceededError)
           ELSE /\ requests' = [r EXCEPT ![client_ip] = Append(@, current_time)]
                /\ resp' = Response("dispatch", req, HTTP_200_OK,
                                    with_headers(requests'[client_ip], current_time))
        /\ UNCHANGED <<now, ticks, rng, tables, pc, local, redemptions, api_keys>>

\* dispatch up to "await call_next(request)": nothing else runs in between.
dispatch_enter(w, client_ip) ==
    LET current_time == now
        r   == filtered(client_ip, current_time)
        req == [client_ip |-> client_ip, current_time |-> current_time]
    IN  /\ pc[w] = "idle"
        /\ IF Len(r[client_ip]) >= max_requests
           THEN /\ requests' = r
                /\ resp' = Response("dispatch", req, HTTP_429_TOO_MANY_REQUESTS,
                                    RateLimitExceededError)
                /\ UNCHANGED <<pc, local>>
           ELSE /\ requests' = [r EXCEPT ![client_ip] = Append(@, current_time)]
                /\ pc' = [pc EXCEPT ![w] = "call_next"]
                /\ local' = [local EXCEPT ![w] = req]
                /\ UNCHANGED resp
        /\ UNCHANGED <<now, ticks, rng, tables, redemptions, api_keys>>

\* dispatch after call_next returned: the headers are computed from the map as
\* it is by then.
dispatch_resume(w) ==
    /\ pc[w] = "call_next"
    /\ resp' = IF local[w].client_ip \in DOMAIN requests
               THEN Response("dispatch", local[w], HTTP_200_OK,
                             with_headers(requests[local[w].client_ip],
                                          local[w].current_time))
               ELSE Response("dispatch", local[w], HTTP_500_INTERNAL_SERVER_ERROR,
                             KeyError)
    /\ pc' = [pc EXCEPT ![w] = "idle"]
    /\ local' = [local EXCEPT ![w] = NoBody]
    /\ UNCHANGED <<now, ticks, rng, tables, redemptions, api_keys, requests>>

----------------
(* Initial state and specifications *)

Init ==
    /\ now = 0
    /\ ticks = 0
    /\ rng = 1
    /\ users = <<>>
    /\ user_sessions = <<>>
    /\ mfa_settings = <<>>
    /\ password_reset_tokens = <<>>
    /\ resp = [seq |-> 0, op |-> "none", req |-> NoBody, code |-> 0, body |-> NoBody]
    /\ pc = [w \in Workers |-> "idle"]
    /\ local = [w \in Workers |-> NoBody]
    /\ redemptions = <<>>
    /\ api_keys = <<>>
    /\ requests = [ip \in {} |-> <<>>]

\* The reset flow, each request served to completion before the next.
NextReset ==
    \/ \E e \in Emails, u \in Usernames : register(e, u, "pw1")
    \/ \E e \in Emails : reset_password(e)
    \/ \E t \in ResetTokenInputs, p \in Passwords : confirm_password_reset(t, p)
    \/ Tick(RESET_TOKEN_EXPIRE_HOURS * 3600)

SpecReset == Init /\ [][NextReset]_vars

\* The reset flow with confirm requests interleaved step by step.
NextResetConc ==
    \/ register("a@x.com", "alice", "pw1")
    \/ \E e \in Emails : reset_password(e)
    \/ \E w \in Workers, t \in ResetTokenInputs : confirm_lookup(w, t, new_password_of(w))
    \/ \E w \in Workers : confirm_set_password(w)
    \/ \E w \in Workers : confirm_mark_used(w)
    \/ \E w \in Workers : confirm_commit(w)
    \/ \E w \in Workers : confirm_interrupted(w)
    \/ Tick(RESET_TOKEN_EXPIRE_HOURS * 3600)

SpecResetConc == Init /\ [][NextResetConc]_vars

\* Login, logout and the session store.
NextSession ==
    \/ \E e \in Emails : register(e, username_of(e), "pw1")
    \/ \E n \in Usernames \cup Emails, p \in Passwords : login(n, p)
    \/ \E t \in BearerInputs : logout(t)
    \/ \E t \in SessionTokenInputs : call_get_user_by_token(t)
    \/ \E t \in SessionTokenInputs : call_revoke_session(t)
    \/ Tick(REFRESH_TOKEN_EXPIRE_DAYS * 86400)

SpecSession == Init /\ [][NextSession]_vars

\* MFA enrollment, enabling and disabling.
NextMFA ==
    \/ \E e \in Emails : register(e, username_of(e), "pw1")
    \/ \E u \in 1..Len(users) : setup_mfa(u)
    \/ \E u \in 1..Len(users) : test_mfa_user(u)
    \/ \E u \in 1..Len(users) : \E c \in CodeInputs(u) : verify_mfa(u, c)
    \/ \E u \in 1..Len(users) : \E c \in CodeInputs(u) : disable_mfa(u, c)
    \/ \E u \in 1..Len(users) : \E c \in CodeInputs(u) : call_verify_mfa(u, c)
    \/ Tick(30)

SpecMFA == Init /\ [][NextMFA]_vars

\* TOTP verification over a wider range of codes.
NextTOTP ==
    \/ \E e \in Emails : register(e, username_of(e), "pw1")
    \/ \E u \in 1..Len(users) : setup_mfa(u)
    \/ \E u \in 1..Len(users) : test_mfa_user(u)
    \/ \E u \in 1..Len(users) : \E c \in WideCodeInputs : call_verify_mfa(u, c)
    \/ Tick(30)

SpecTOTP == Init /\ [][NextTOTP]_vars

\* Backup codes of one account: issue, regenerate, consume.
NextBackup ==
    \/ register("a@x.com", "alice", "pw1")
    \/ \E u \in 1..Len(users) : setup_mfa(u)
    \/ \E u \in 1..Len(users) : test_mfa_user(u)
    \/ \E u \in 1..Len(users) : regenerate_backup_codes(u)
    \/ \E u \in 1..Len(users) : \E c \in BackupCodeInputs(u) : verify_backup_code(u, c)

SpecBackup == Init /\ [][NextBackup]_vars

\* Two backup-code verifications in flight at once.
NextBackupConc ==
    \/ register("a@x.com", "alice", "pw1")
    \/ \E u \in 1..Len(users) : setup_mfa(u)
    \/ \E w \in Workers, u \in 1..Len(users) :
          \E c \in BackupCodeInputs(u) : backup_query(w, u, c)
    \/ \E w \in Workers : backup_remove_commit(w)

SpecBackupConc == Init /\ [][NextBackupConc]_vars

\* Login by username or email, with inactive accounts.
NextLogin ==
    \/ \E e \in Emails, u \in Usernames \cup Emails : register(e, u, password_of(e))
    \/ \E u \in 1..Len(users) : deactivate_user(u)
    \/ \E n \in Usernames \cup Emails, p \in Passwords : login(n, p)

SpecLogin == Init /\ [][NextLogin]_vars

\* Accounts found by identifier, with registrations and profile updates.
NextIdentifier ==
    \/ \E e \in Emails, u \in Usernames \cup Emails : register(e, u, password_of(e))
    \/ \E u \in 1..Len(users), e \in Emails : update_user_me(u, "email", e)
    \/ \E u \in 1..Len(users), n \in Usernames \cup Emails : update_user_me(u, "username", n)
    \/ \E n \in Usernames \cup Emails, p \in Passwords : call_authenticate_user(n, p)

SpecIdentifier == Init /\ [][NextIdentifier]_vars

\* The token functions called directly, with time passing between the calls.
NextToken ==
    \/ \E subject \in Subjects, kind \in Kinds, ttl \in Lifetimes :
          call_issue(subject, kind, ttl)
    \/ \E t \in TokenCallInputs, kind \in Kinds : call_verify_token(t, kind)
    \/ \E d \in {1, ACCESS_TOKEN_EXPIRE_MINUTES * 60} : Tick(d)

SpecToken == Init /\ [][NextToken]_vars

\* Login, refresh and session revocation, with accounts being deactivated and
\* tokens expiring.
NextRefresh ==
    \/ \E e \in Emails : register(e, username_of(e), password_of(e))
    \/ \E u \in 1..Len(users) : deactivate_user(u)
    \/ \E e \in Emails : login(e, password_of(e))
    \/ \E i \in 1..Len(user_sessions) : call_revoke_session(user_sessions[i].session_token)
    \/ \E t \in RefreshTokenInputs : refresh_token(t)
    \/ Tick(REFRESH_TOKEN_EXPIRE_DAYS * 86400)

SpecRefresh == Init /\ [][NextRefresh]_vars

\* The tokens of a login presented to the refresh endpoint and to verify_token
\* under either expected type.
NextKinds ==
    \/ \E e \in Emails : register(e, username_of(e), password_of(e))
    \/ \E e \in Emails : login(e, password_of(e))
    \/ \E t \in SignedTokenInputs : refresh_token(t)
    \/ \E t \in SignedTokenInputs, kind \in Kinds : call_verify_token(t, kind)
    \/ Tick(ACCESS_TOKEN_EXPIRE_MINUTES * 60)

SpecKinds == Init /\ [][NextKinds]_vars

\* The hashing functions called directly.
NextHash ==
    \/ \E p \in Passwords : call_get_password_hash(p)
    \/ \E p \in Passwords, d \in DigestInputs : call_verify_password(p, d)

SpecHash == Init /\ [][NextHash]_vars

\* Accounts changing their passwords and signing in with old and new ones.
NextPassword ==
    \/ \E e \in Emails : register(e, username_of(e), password_of(e))
    \/ /\ rng <= MaxUsers + MaxChanges
       /\ \E u \in 1..Len(users), p, q \in Passwords : change_password(u, p, q)
    \/ \E n \in Emails, p \in Passwords : call_authenticate_user(n, p)

SpecPassword == Init /\ [][NextPassword]_vars

\* Accounts creating API keys and revoking keys by id, their own or not.
NextApiKeys ==
    \/ \E e \in Emails : register(e, username_of(e), password_of(e))
    \/ \E u \in 1..Len(users), n \in KeyNames : create_api_key(u, n)
    \/ \E u \in 1..Len(users), k \in 1..(Len(api_keys) + 1) : revoke_api_key(u, k)

SpecApiKeys == Init /\ [][NextApiKeys]_vars

\* Requests through the rate limiter, one at a time.
NextRateLimit ==
    \/ \E ip \in ClientIps : dispatch(ip)
    \/ \E d \in {window_seconds \div 2, window_seconds} : Elapse(d)

SpecRateLimit == Init /\ [][NextRateLimit]_vars

\* Requests through the rate limiter, suspended at call_next while others run.
NextRateLimitConc ==
    \/ \E w \in Workers, ip \in ClientIps : dispatch_enter(w, ip)
    \/ \E w \in Workers : dispatch_resume(w)
    \/ \E d \in {window_seconds \div 2, window_seconds} : Elapse(d)

SpecRateLimitConc == Init /\ [][NextRateLimitConc]_vars

----------------------------------------------------------------------------
(* Claims about the reset flow *)

\* The rows of password_reset_tokens holding this token string.
reset_rows(token) ==
    {i \in 1..Len(password_reset_tokens) : password_reset_tokens[i].token = token}

C4_ResetResponseUniform ==
    [][Served("reset_password") =>
           /\ (/\ resp.op = "reset_password"
               /\ (user_by_email(resp.req.email) = 0)
                      # (user_by_email(resp'.req.email) = 0))
                  => resp'.body = resp.body
           /\ user_by_email(resp'.req.email) = 0 =>
                  password_reset_tokens' = password_reset_tokens
      ]_vars

----------------------------------------------------------------------------
(* Claims about interleaved reset confirmation *)

\* C2: redemption is not replayable under interleaving: for every reset-token
\* row at most one confirm request commits with it, so at most one request
\* succeeds and at most one password replacement is applied.
C2_NoReplayUnderInterleaving ==
    \A i \in 1..Len(password_reset_tokens) : redemptions[i] <= 1

\* C3: in the database the token row is marked used and the owner's hash is
\* replaced in one step: a step that marks a row used replaces the owner's
\* hash, a step that replaces a hash leaves the token of the request that
\* wrote it used, and a row is used exactly when a confirm committed with it
\* (so a request that failed or was abandoned before its commit left neither).
C3_HashAndUsedFlagTogether ==
    /\ [](\A i \in 1..Len(password_reset_tokens) :
              password_reset_tokens[i].is_used <=> redemptions[i] > 0)
    /\ [][/\ \A i \in 1..Len(password_reset_tokens) :
                 (~password_reset_tokens[i].is_used /\ password_reset_tokens'[i].is_used) =>
                     LET u == user_by_id(password_reset_tokens[i].user_id)
                     IN  users'[u].hashed_password # users[u].hashed_password
          /\ \A u \in 1..Len(users) :
                 users'[u].hashed_password # users[u].hashed_password =>
                     \E w \in Workers :
                         /\ pc[w] # pc'[w]
                         /\ local[w].user = u
                         /\ users'[u].hashed_password = local[w].hashed_password
                         /\ password_reset_tokens'[local[w].reset_token_record].is_used
         ]_vars

\* C3 witness: one request has committed (the row is used and the stored hash
\* is the one it wrote) while another request holding the same row has
\* assigned both attributes and not committed: its hash is not in the database.
C3_Witness ==
    \E w \in Workers :
        /\ pc[w] = "marked"
        /\ local[w].is_used
        /\ password_reset_tokens[local[w].reset_token_record].is_used
        /\ redemptions[local[w].reset_token_record] = 1
        /\ users[local[w].user].hashed_password # local[w].hashed_password
        /\ resp.op = "confirm_password_reset"
        /\ resp.code = HTTP_200_OK

----------------------------------------------------------------------------
(* Claims about sessions *)

\* The rows of user_sessions holding this session token.
session_rows(token) ==
    {i \in 1..Len(user_sessions) : user_sessions[i].session_token = token}

\* C5: resolve returns the owner if and only if a session with exactly that
\* session token exists, is active and now < expires_at, and none otherwise
\* (unknown token, revoked session, expired session); a direct call returns
\* just that; it returns the owner right after a login opened the session and
\* none right after a revoke.
C5_ResolveOnlyUsableSessions ==
    /\ [](\A t \in SessionTokenInputs :
              LET usable == {i \in session_rows(t) :
                                /\ user_sessions[i].is_active
                                /\ now < user_sessions[i].expires_at}
              IN  /\ get_user_by_token(t) # 0 <=> usable # {}
                  /\ \A i \in usable :
                         users[get_user_by_token(t)].id = user_sessions[i].user_id)
    /\ [][/\ Served("get_user_by_token") =>
                 resp'.body.user = get_user_by_token(resp'.req.token)
          /\ (Served("login") /\ resp'.code = HTTP_200_OK) =>
                 /\ Len(user_sessions') = Len(user_sessions) + 1
                 /\ \E t \in SessionTokenInputs', u \in 1..Len(users) :
                        /\ t = user_sessions'[Len(user_sessions')].session_token
                        /\ u = authenticate_user(resp'.req.username, resp'.req.password)
                        /\ get_user_by_token(t)' = u
          /\ (Served("revoke_session") /\ resp'.body.result) =>
                 \A t \in SessionTokenInputs :
                     t = resp'.req.token => get_user_by_token(t)' = 0
         ]_vars

\* C5 witness: a direct call with the token of a session that is still active
\* but has reached its expiry returned none.
C5_Witness ==
    /\ resp.op = "get_user_by_token"
    /\ resp.body.user = 0
    /\ \E i \in session_rows(resp.req.token) :
           /\ user_sessions[i].is_active
           /\ now >= user_sessions[i].expires_at

C7_LogoutRevokesLoginSession ==
    [][(/\ Served("logout")
        /\ resp.op = "login"
        /\ resp.code = HTTP_200_OK
        /\ resp'.req.token = resp.body.access_token) =>
           /\ resp'.code = HTTP_200_OK
           /\ Len(user_sessions') = Len(user_sessions)
           /\ ~user_sessions'[Len(user_sessions)].is_active
      ]_vars

----------------------------------------------------------------------------
(* MFA claims *)

\* The enrollment rows of an account.
enrollments_of(user) ==
    {i \in 1..Len(mfa_settings) : mfa_settings[i].user_id = users[user].id}

\* C8: after setup has created an enrollment for an account that had none,
\* an enable request (POST /mfa/verify) carrying the TOTP code of the current
\* time step for the stored secret succeeds and leaves the enrollment enabled.
C8_EnableAfterSetup ==
    [][\A u \in 1..Len(users) :
          \A m \in enrollments_of(u) :
             ( /\ resp.op = "mfa_setup"
               /\ resp.req.user = u
               /\ enrollments_of(u) = {m}
               /\ ~mfa_settings[m].is_enabled
               /\ Served("mfa_verify")
               /\ resp'.req = [user |-> u,
                               code |-> totp_at(mfa_settings[m].totp_secret, timecode(now))] )
             => /\ resp'.code = HTTP_200_OK
                /\ mfa_settings'[m].is_enabled]_vars

\* C9: AuthService.verify_mfa answers true only for an account whose
\* enrollment exists and is enabled; for an account with no enrollment or a
\* disabled one it answers false for every code, the correct one included,
\* and a call returns exactly that answer.
C9_VerifyOnlyWhenEnabled ==
    /\ [](\A u \in 1..Len(users) :
             LET m == mfa_settings_of(u)
             IN  /\ (\E c \in CodeInputs(u) : AuthService_verify_mfa(u, c))
                        => (m # 0 /\ mfa_settings[m].is_enabled)
                 /\ (m = 0 \/ ~mfa_settings[m].is_enabled)
                        => /\ \A c \in CodeInputs(u) : ~AuthService_verify_mfa(u, c)
                           /\ m # 0 => ~AuthService_verify_mfa(u,
                                  totp_at(mfa_settings[m].totp_secret, timecode(now))))
    /\ [][Served("AuthService.verify_mfa")
             => /\ resp'.body.result = AuthService_verify_mfa(resp'.req.user, resp'.req.code)
                /\ resp'.body.result
                     => \E m \in enrollments_of(resp'.req.user) : mfa_settings[m].is_enabled]_vars

\* C9 witness: a call with the correct code of the current step for an
\* account whose enrollment is disabled has answered false.
C9_Witness ==
    /\ resp.op = "AuthService.verify_mfa"
    /\ resp.body.result = FALSE
    /\ \E m \in 1..Len(mfa_settings) :
          /\ m = mfa_settings_of(resp.req.user)
          /\ ~mfa_settings[m].is_enabled
          /\ resp.req.code = totp_at(mfa_settings[m].totp_secret, timecode(now))

\* C10: enabling and disabling are gated on the supplied code passing
\* AuthService.verify_mfa.  A request whose code does not pass is rejected
\* with 400 'Invalid MFA code' and leaves every enrollment as it was; a
\* disable request whose code passes on an enabled enrollment sets its
\* enabled flag to false and changes nothing else; and the enabled flag of
\* an enrollment changes in no other step.
C10_EnableDisableGated ==
    [][/\ ( /\ Served("mfa_verify") \/ Served("mfa_disable")
            /\ ~AuthService_verify_mfa(resp'.req.user, resp'.req.code) )
          => ( /\ resp'.code = HTTP_400_BAD_REQUEST
               /\ resp'.body = [detail |-> "Invalid MFA code"]
               /\ mfa_settings' = mfa_settings )
       /\ ( /\ Served("mfa_disable")
            /\ AuthService_verify_mfa(resp'.req.user, resp'.req.code) )
          => ( /\ resp'.code = HTTP_200_OK
               /\ mfa_settings[mfa_settings_of(resp'.req.user)].is_enabled
               /\ mfa_settings' = [mfa_settings EXCEPT
                                      ![mfa_settings_of(resp'.req.user)].is_enabled = FALSE] )
       /\ Len(mfa_settings') >= Len(mfa_settings)
       /\ \A i \in 1..Len(mfa_settings) :
             (mfa_settings'[i].is_enabled # mfa_settings[i].is_enabled)
          => ( /\ Served("mfa_verify") \/ Served("mfa_disable")
               /\ resp'.code = HTTP_200_OK
               /\ AuthService_verify_mfa(resp'.req.user, resp'.req.code)
               /\ i = mfa_settings_of(resp'.req.user) )]_vars

\* C10 witness: a disable request with a passing code has been answered 200
\* and the account's enrollment is now disabled.
C10_Witness ==
    /\ resp.op = "mfa_disable"
    /\ resp.code = HTTP_200_OK
    /\ mfa_settings_of(resp.req.user) # 0
    /\ ~mfa_settings[mfa_settings_of(resp.req.user)].is_enabled
    /\ totp_verify(mfa_settings[mfa_settings_of(resp.req.user)].totp_secret, resp.req.code)

----------------------------------------------------------------------------
(* Enrollment and TOTP claims *)

\* C11: after any sequence of MFA operations, repeated setup calls by one
\* account included, every account has at most one MFA enrollment record.
C11_AtMostOneEnrollment ==
    \A u \in 1..Len(users) : Cardinality(enrollments_of(u)) <= 1

\* C12: for an account with an enabled enrollment, AuthService.verify_mfa at
\* server time step t accepts a code exactly when it is the TOTP value of the
\* stored secret for step t-1, t or t+1; the code of the current step is
\* accepted and a code of a step further away is rejected.
C12_AcceptWithinOneStep ==
    /\ [](\A u \in 1..Len(users) :
             LET m == mfa_settings_of(u)
             IN  (m # 0 /\ mfa_settings[m].is_enabled)
                 => /\ \A c \in WideCodeInputs :
                          AuthService_verify_mfa(u, c)
                              <=> \E d \in {-1, 0, 1} :
                                     c = totp_at(mfa_settings[m].totp_secret, timecode(now) + d)
                    /\ AuthService_verify_mfa(u,
                           totp_at(mfa_settings[m].totp_secret, timecode(now)))
                    /\ \A d \in {-2, 2} : ~AuthService_verify_mfa(u,
                           totp_at(mfa_settings[m].totp_secret, timecode(now) + d)))
    /\ [][\A u \in 1..Len(users) :
             LET m == mfa_settings_of(u)
             IN  ( /\ Served("AuthService.verify_mfa")
                   /\ resp'.req.user = u
                   /\ m # 0
                   /\ mfa_settings[m].is_enabled )
                 => resp'.body.result
                       = (\E d \in {-1, 0, 1} :
                             resp'.req.code
                                = totp_at(mfa_settings[m].totp_secret, timecode(now) + d))]_vars

\* C12 witness: a call for an enabled enrollment with the code of the step
\* after the current one has answered true.
C12_Witness ==
    /\ resp.op = "AuthService.verify_mfa"
    /\ resp.body.result = TRUE
    /\ \E m \in 1..Len(mfa_settings) :
          /\ m = mfa_settings_of(resp.req.user)
          /\ mfa_settings[m].is_enabled
          /\ resp.req.code = totp_at(mfa_settings[m].totp_secret, timecode(now) + 1)

----------------------------------------------------------------------------
(* Backup-code claims *)

\* The backup codes stored in an enrollment row.
stored_codes(m) ==
    {json_loads(mfa_settings[m].backup_codes)[i] :
        i \in 1..Len(json_loads(mfa_settings[m].backup_codes))}

\* C13: backup codes are single-use.  Setup stores a set of 10 codes; a code
\* issued to an account by setup and not yet accepted is accepted by
\* backup-code verification, its acceptance removes exactly that code from the stored
\* set, a code absent from the account's stored sets is rejected, and an
\* issued code that has left a stored set never returns to it.
C13_BackupCodesSingleUse ==
    [][/\ Served("mfa_setup")
             => /\ Len(mfa_settings') = Len(mfa_settings) + 1
                /\ \A m \in {Len(mfa_settings) + 1} :
                      Cardinality(stored_codes(m)') = BACKUP_CODE_COUNT
       /\ \A u \in 1..Len(users) :
             \A m \in enrollments_of(u) :
                \A c \in stored_codes(m) :
                   ( /\ \A k \in enrollments_of(u) : truthy(mfa_settings[k].backup_codes)
                     /\ Served("verify_backup_code")
                     /\ resp'.req = [user |-> u, code |-> c] )
                   => /\ resp'.code = HTTP_200_OK
                      /\ stored_codes(m)' = stored_codes(m) \ {c}
                      /\ \A k \in 1..Len(mfa_settings) :
                            k # m => mfa_settings'[k] = mfa_settings[k]
       /\ \A u \in 1..Len(users) :
             ( /\ Served("verify_backup_code")
               /\ resp'.req.user = u
               /\ \A m \in enrollments_of(u) : resp'.req.code \notin stored_codes(m) )
             => resp'.code # HTTP_200_OK
       /\ \A m \in 1..Len(mfa_settings) :
             \A n \in 0..(rng - 1) :
                token_urlsafe(n) \notin stored_codes(m)
                   => token_urlsafe(n) \notin stored_codes(m)'
      ]_vars

\* C14: regenerate_backup_codes answers 404 and changes nothing when the
\* account has no enrollment; otherwise it replaces the whole stored set with
\* 10 new codes in one step, after which backup-code verification accepts no
\* code drawn before the call, and the enrollment's secret and enabled flag
\* and every other row are unchanged.
C14_RegenerateReplacesSet ==
    [][/\ \A u \in 1..Len(users) :
             LET m == mfa_settings_of(u)
             IN  (Served("regenerate_backup_codes") /\ resp'.req.user = u)
                 => IF m = 0
                    THEN /\ resp'.code = HTTP_404_NOT_FOUND
                         /\ resp'.body = [detail |-> "MFA not set up for this user"]
                         /\ UNCHANGED tables
                    ELSE /\ resp'.code = HTTP_200_OK
                         /\ Len(resp'.body.backup_codes) = BACKUP_CODE_COUNT
                         /\ json_loads(mfa_settings'[m].backup_codes) = resp'.body.backup_codes
                         /\ Cardinality(stored_codes(m)') = BACKUP_CODE_COUNT
                         /\ stored_codes(m)' \cap stored_codes(m) = {}
                         /\ \A n \in 0..(rng - 1) :
                               ~backup_code_accepted(u, token_urlsafe(n))'
                         /\ mfa_settings' = [mfa_settings EXCEPT
                                                ![m].backup_codes = mfa_settings'[m].backup_codes]
                         /\ UNCHANGED <<users, user_sessions, password_reset_tokens>>
       /\ Served("verify_backup_code")
             => ((resp'.code = HTTP_200_OK)
                    <=> backup_code_accepted(resp'.req.user, resp'.req.code))
      ]_vars

\* C14 witness: a regeneration has been answered with 10 codes, they are the
\* stored set, and a code of the set stored before it is no longer accepted.
C14_Witness ==
    /\ resp.op = "regenerate_backup_codes"
    /\ resp.code = HTTP_200_OK
    /\ json_loads(mfa_settings[mfa_settings_of(resp.req.user)].backup_codes)
          = resp.body.backup_codes
    /\ \E n \in 1..(rng - 1) :
          /\ token_urlsafe(n) \notin stored_codes(mfa_settings_of(resp.req.user))
          /\ ~backup_code_accepted(resp.req.user, token_urlsafe(n))

\* C15: backup-code verification with a code that is not a member of the
\* account's current (stored, non-empty) set is rejected with 400 'Invalid
\* backup code' and leaves the stored set, the secret, the enabled flag and
\* every other row unchanged.
C15_InvalidBackupCodeRejected ==
    [][\A u \in 1..Len(users) :
          LET m == mfa_settings_of(u)
          IN  ( /\ Served("verify_backup_code")
                /\ resp'.req.user = u
                /\ m # 0
                /\ stored_codes(m) # {}
                /\ resp'.req.code \notin stored_codes(m) )
              => ( /\ resp'.code = HTTP_400_BAD_REQUEST
                   /\ resp'.body = [detail |-> "Invalid backup code"]
                   /\ UNCHANGED tables )
      ]_vars

\* C15 witness: a verification with a code outside the account's non-empty
\* stored set has been answered 400.
C15_Witness ==
    /\ resp.op = "verify_backup_code"
    /\ resp.code = HTTP_400_BAD_REQUEST
    /\ mfa_settings_of(resp.req.user) # 0
    /\ stored_codes(mfa_settings_of(resp.req.user)) # {}
    /\ resp.req.code \notin stored_codes(mfa_settings_of(resp.req.user))

\* C16: backup-code verification answers 404 'No backup codes available',
\* not 400, whenever the account has no backup codes: no enrollment, an
\* enrollment that never had codes stored, or a stored set emptied by
\* consuming every code.
C16_NotFoundWithoutCodes ==
    [][\A u \in 1..Len(users) :
          LET m == mfa_settings_of(u)
          IN  ( /\ Served("verify_backup_code")
                /\ resp'.req.user = u
                /\ \/ m = 0
                   \/ mfa_settings[m].backup_codes = NULL
                   \/ stored_codes(m) = {} )
              => ( /\ resp'.code = HTTP_404_NOT_FOUND
                   /\ resp'.body = [detail |-> "No backup codes available"]
                   /\ UNCHANGED tables )
      ]_vars

\* C17: backup-code consumption is atomic under interleaving: of two
\* verification requests on one enrollment, the same code is accepted by at
\* most one, and when two different codes are accepted both are absent from
\* the stored set afterwards.
C17_AtomicBackupCodeConsumption ==
    \A w1, w2 \in Workers :
       ( /\ w1 # w2
         /\ pc[w1] = "done" /\ local[w1].status_code = HTTP_200_OK
         /\ pc[w2] = "done" /\ local[w2].status_code = HTTP_200_OK
         /\ local[w1].req.user = local[w2].req.user )
       => /\ local[w1].req.code # local[w2].req.code
          /\ \A m \in enrollments_of(local[w1].req.user) :
                /\ local[w1].req.code \notin stored_codes(m)
                /\ local[w2].req.code \notin stored_codes(m)

----------------------------------------------------------------------------
(* Login claims *)

\* The accounts whose username or email is the identifier.
accounts_named(identifier) ==
    {i \in 1..Len(users) : users[i].username = identifier \/ users[i].email = identifier}

\* C18: login fails uniformly for bad credentials: a login whose identifier
\* matches no account and a login whose identifier matches an account but
\* whose password is wrong both get 401 with the same detail 'Incorrect
\* username or password', create no session and issue no tokens.
C18_UniformLoginFailure ==
    [][\A n \in Usernames \cup Emails, p \in Passwords :
          ( /\ Served("login")
            /\ resp'.req = [username |-> n, password |-> p]
            /\ \A i \in accounts_named(n) :
                  ~verify_password(p, users[i].hashed_password) )
          => ( /\ resp'.code = HTTP_401_UNAUTHORIZED
               /\ resp'.body = [detail |-> "Incorrect username or password"]
               /\ UNCHANGED <<tables, rng>> )
      ]_vars

\* C18 witness: a login with the username of a registered account and a wrong
\* password has been answered 401.
C18_Witness ==
    /\ resp.op = "login"
    /\ resp.code = HTTP_401_UNAUTHORIZED
    /\ \E i \in 1..Len(users) :
          /\ users[i].username = resp.req.username
          /\ ~verify_password(resp.req.password, users[i].hashed_password)
    /\ user_sessions = <<>>

\* C19: a login whose identifier names exactly one account and whose
\* password is that account's password is rejected with 400 'Inactive user'
\* (not 401) when the account's active flag is false, creating no session and
\* issuing no tokens; when the account is active it creates exactly one new
\* active session of that account and returns an access token, a refresh
\* token and token type 'bearer'.
C19_InactiveRejectedActiveGetsSession ==
    [][\A n \in Usernames \cup Emails, p \in Passwords :
          \A i \in 1..Len(users) :
             ( /\ Served("login")
               /\ resp'.req = [username |-> n, password |-> p]
               /\ accounts_named(n) = {i}
               /\ verify_password(p, users[i].hashed_password) )
             => IF ~users[i].is_active
                THEN /\ resp'.code = HTTP_400_BAD_REQUEST
                     /\ resp'.code # HTTP_401_UNAUTHORIZED
                     /\ resp'.body = [detail |-> "Inactive user"]
                     /\ UNCHANGED <<tables, rng>>
                ELSE /\ resp'.code = HTTP_200_OK
                     /\ DOMAIN resp'.body = {"access_token", "refresh_token", "token_type"}
                     /\ resp'.body.access_token = create_access_token(users[i].id)
                     /\ resp'.body.refresh_token = create_refresh_token(users[i].id)
                     /\ resp'.body.token_type = "bearer"
                     /\ Len(user_sessions') = Len(user_sessions) + 1
                     /\ SubSeq(user_sessions', 1, Len(user_sessions)) = user_sessions
                     /\ user_sessions'[Len(user_sessions')].user_id = users[i].id
                     /\ user_sessions'[Len(user_sessions')].is_active
                     /\ user_sessions'[Len(user_sessions')].expires_at > now
                     /\ UNCHANGED <<users, mfa_settings, password_reset_tokens>>
      ]_vars

\* C19 witness: an account logged in while active, was made inactive, and
\* its next login with the same correct credentials has been answered 400
\* 'Inactive user', leaving the one session created before.
C19_Witness ==
    /\ resp.op = "login"
    /\ resp.code = HTTP_400_BAD_REQUEST
    /\ resp.body = [detail |-> "Inactive user"]
    /\ Len(user_sessions) = 1
    /\ \E i \in 1..Len(users) :
          /\ accounts_named(resp.req.username) = {i}
          /\ verify_password(resp.req.password, users[i].hashed_password)
          /\ ~users[i].is_active
          /\ user_sessions[1].user_id = users[i].id
          /\ user_sessions[1].is_active

\* C20: the login identifier can be the username or the email: in every
\* state reached by registrations and profile updates, for every registered
\* account, authenticate_user(identifier, password) returns that account when
\* the identifier is its username or its email and the password is its
\* current password.
C20_LoginByUsernameOrEmail ==
    [][\A i \in 1..Len(users) :
          ( /\ Served("authenticate_user")
            /\ resp'.req.username \in {users[i].username, users[i].email}
            /\ verify_password(resp'.req.password, users[i].hashed_password) )
          => resp'.body.user = i
      ]_vars

----------------------------------------------------------------------------
(* Account identity claims *)

\* C21: after any sequence of registrations and profile updates no two
\* accounts share an email and no two share a username; a registration whose
\* email or username is already taken is rejected with 400 '... already
\* exists' and writes nothing.
C21_UniqueEmailAndUsername ==
    /\ [](\A i, j \in 1..Len(users) :
             i # j => /\ users[i].email # users[j].email
                      /\ users[i].username # users[j].username)
    /\ [][\A e \in Emails, n \in Usernames \cup Emails :
             ( /\ Served("register")
               /\ resp'.req.email = e
               /\ resp'.req.username = n
               /\ \E i \in 1..Len(users) : users[i].email = e \/ users[i].username = n )
             => ( /\ resp'.code = HTTP_400_BAD_REQUEST
                  /\ resp'.body = [detail |-> "User with this email or username already exists"]
                  /\ UNCHANGED <<tables, rng>> )]_vars

\* C21 witness: with one account registered, a registration with a fresh
\* email but a taken username has been rejected with 400.
C21_Witness ==
    /\ resp.op = "register"
    /\ resp.code = HTTP_400_BAD_REQUEST
    /\ Len(users) = 1
    /\ users[1].email # resp.req.email
    /\ users[1].username = resp.req.username

----------------------------------------------------------------------------
(* Signed token claims *)

\* C22: a signed token whose type differs from the expected one never
\* verifies: verify_token returns None for it, and the refresh endpoint
\* answers an access token with 401 'Invalid refresh token'.
C22_TokenKindsNotConfused ==
    [][ /\ ( /\ Served("verify_token")
             /\ resp'.req.token.fmt # "opaque"
             /\ resp'.req.token.type # resp'.req.token_type )
           => resp'.body.subject = None
        /\ ( /\ Served("refresh_token")
             /\ resp'.req.token.fmt # "opaque"
             /\ resp'.req.token.type = "access" )
           => ( /\ resp'.code = HTTP_401_UNAUTHORIZED
                /\ resp'.body = [detail |-> "Invalid refresh token"] ) ]_vars

\* An unexpired access token of an active account was presented to the
\* refresh endpoint.
C22_Witness ==
    /\ resp.op = "refresh_token"
    /\ resp.req.token.fmt = "jwt"
    /\ resp.req.token.type = "access"
    /\ now < resp.req.token.exp
    /\ \E u \in 1..Len(users) : users[u].id = int(resp.req.token.sub) /\ users[u].is_active
    /\ resp.code = HTTP_401_UNAUTHORIZED

\* C23: verifying a token just issued for a subject, under the kind it was
\* issued with, returns that subject (as a string) when the time is before
\* issue time + ttl, and None from issue time + ttl on.
C23_RoundTripAndExpiry ==
    [][ ( /\ resp.op = "issue"
          /\ Served("verify_token")
          /\ resp'.req.token = resp.body.token
          /\ resp'.req.token_type = resp.req.kind )
        => resp'.body.subject =
              IF now < resp.body.issued_at + resp.req.ttl
              THEN str(resp.req.subject)
              ELSE None ]_vars

\* A token issued for half an hour was verified, under its own kind, exactly
\* half an hour later.
C23_Witness ==
    /\ resp.op = "verify_token"
    /\ resp.req.token.fmt = "jwt"
    /\ resp.req.token.type = resp.req.token_type
    /\ resp.req.token.exp = ACCESS_TOKEN_EXPIRE_MINUTES * 60
    /\ now = resp.req.token.exp
    /\ resp.body.subject = None

----------------------------------------------------------------------------
(* Password hashing claims *)

\* C24: a password verifies against a digest exactly when the digest was made
\* from that password, and a second digest, of the same password or another,
\* differs from the one made before it.
C24_HashRoundTrip ==
    [][ /\ ( /\ resp.op = "get_password_hash"
             /\ Served("verify_password")
             /\ resp'.req.digest = resp.body.digest )
           => resp'.body.ok = (resp'.req.password = resp.req.password)
        /\ ( /\ resp.op = "get_password_hash"
             /\ Served("get_password_hash") )
           => resp'.body.digest # resp.body.digest ]_vars

\* The second digest made was verified with the password it was made from.
C24_Witness ==
    /\ resp.op = "verify_password"
    /\ resp.req.password = "pw1"
    /\ resp.req.digest = get_password_hash("pw1", 2)
    /\ resp.body.ok
    /\ rng = 3

----------------------------------------------------------------------------
(* Refresh claims *)

\* C26: the refresh endpoint answers 200 with a new access/refresh pair for
\* the subject exactly when the token presented is a well-signed, unexpired
\* token of type refresh whose subject is an account that exists and is
\* active; in every other case it answers 401 and returns no token.
C26_RefreshIffValidAndActive ==
    [][ Served("refresh_token") =>
          LET t  == resp'.req.token
              ok == /\ t.fmt = "jwt"
                    /\ t.type = "refresh"
                    /\ now < t.exp
                    /\ \E u \in 1..Len(users) :
                          users[u].id = int(t.sub) /\ users[u].is_active
          IN  IF ok
              THEN /\ resp'.code = HTTP_200_OK
                   /\ resp'.body =
                        [access_token |-> issue(int(t.sub), "access",
                                                ACCESS_TOKEN_EXPIRE_MINUTES * 60),
                         refresh_token |-> issue(int(t.sub), "refresh",
                                                 REFRESH_TOKEN_EXPIRE_DAYS * 86400),
                         token_type |-> "bearer"]
              ELSE /\ resp'.code = HTTP_401_UNAUTHORIZED
                   /\ resp'.body \in {[detail |-> "Invalid refresh token"],
                                      [detail |-> "User not found or inactive"]} ]_vars

\* An unexpired refresh token of an account deactivated since was presented.
C26_Witness ==
    /\ resp.op = "refresh_token"
    /\ resp.req.token.fmt = "jwt"
    /\ resp.req.token.type = "refresh"
    /\ now < resp.req.token.exp
    /\ \E u \in 1..Len(users) : users[u].id = int(resp.req.token.sub) /\ ~users[u].is_active
    /\ resp.code = HTTP_401_UNAUTHORIZED
    /\ resp.body = [detail |-> "User not found or inactive"]

\* C27: a refresh leaves every table, the sessions among them, as it was, and
\* the refresh token a login returned is honoured every time it is presented
\* before its expiry while the account is active, whether or not the session
\* that login opened is still active.
C27_RefreshIndependentOfSessions ==
    [][ /\ Served("refresh_token") => UNCHANGED tables
        /\ \A i \in 1..Len(user_sessions) :
             ( /\ Served("refresh_token")
               /\ resp'.req.token \in login_tokens(i)
               /\ resp'.req.token.type = "refresh"
               /\ now < resp'.req.token.exp
               /\ users[user_by_id(user_sessions[i].user_id)].is_active )
             => resp'.code = HTTP_200_OK ]_vars

\* The refresh token of a login whose session has been revoked was redeemed
\* twice in a row.
C27_Witness ==
    /\ resp.op = "refresh_token"
    /\ resp.code = HTTP_200_OK
    /\ resp.seq = 1
    /\ \E i \in 1..Len(user_sessions) :
          /\ resp.req.token \in login_tokens(i)
          /\ ~user_sessions[i].is_active
          /\ \A j \in 1..Len(user_sessions) :
                user_sessions[j].user_id = user_sessions[i].user_id
                    => ~user_sessions[j].is_active

----------------------------------------------------------------------------
(* Password change claims *)

\* C28 as stated: a wrong current password is answered 400 'Incorrect current
\* password' with the hash unchanged; a correct one replaces the caller's hash
\* so that the new password authenticates and the old one does not, and no
\* other account changes.
C28_OldPasswordNeverAuthenticatesAfterChange ==
    [][ \A u \in 1..Len(users), e \in Emails, p, q \in Passwords :
          ( /\ Served("change_password")
            /\ resp'.req = [user |-> u, current_password |-> p, new_password |-> q]
            /\ users[u].email = e ) =>
            IF ~verify_password(p, users[u].hashed_password)
            THEN /\ resp'.code = HTTP_400_BAD_REQUEST
                 /\ resp'.body = [detail |-> "Incorrect current password"]
                 /\ UNCHANGED users
            ELSE /\ resp'.code = HTTP_200_OK
                 /\ users'[u].hashed_password # users[u].hashed_password
                 /\ authenticate_user(e, q)' = u
                 /\ authenticate_user(e, p)' = 0
                 /\ \A v \in 1..Len(users) : v # u => users'[v] = users[v] ]_vars

\* C28 amended: as above, the old password being refused afterwards only when
\* the new password differs from it.
C28_ChangePasswordGuardedByCurrent ==
    [][ \A u \in 1..Len(users), e \in Emails, p, q \in Passwords :
          ( /\ Served("change_password")
            /\ resp'.req = [user |-> u, current_password |-> p, new_password |-> q]
            /\ users[u].email = e ) =>
            IF ~verify_password(p, users[u].hashed_password)
            THEN /\ resp'.code = HTTP_400_BAD_REQUEST
                 /\ resp'.body = [detail |-> "Incorrect current password"]
                 /\ UNCHANGED users
            ELSE /\ resp'.code = HTTP_200_OK
                 /\ users'[u].hashed_password # users[u].hashed_password
                 /\ authenticate_user(e, q)' = u
                 /\ q # p => authenticate_user(e, p)' = 0
                 /\ q = p => authenticate_user(e, p)' = u
                 /\ \A v \in 1..Len(users) : v # u => users'[v] = users[v] ]_vars

\* An account changed its password to a different one while another account
\* was registered.
C28_Witness ==
    /\ resp.op = "change_password"
    /\ resp.code = HTTP_200_OK
    /\ resp.req.new_password # resp.req.current_password
    /\ Len(users) = 2
    /\ verify_password(resp.req.new_password, users[resp.req.user].hashed_password)

----------------------------------------------------------------------------
(* API key claims *)

\* C25: revoking a key id that does not exist, or that belongs to another
\* account, is answered 404 'API key not found' and leaves every key as it
\* was; revoking one's own key sets that key's is_active to false and changes
\* no other key and no other field.
C25_RevocationConfinedToOwner ==
    [][ \A u \in 1..Len(users), k \in 1..(Len(api_keys) + 1) :
          ( /\ Served("revoke_api_key")
            /\ resp'.req = [user |-> u, key_id |-> k] ) =>
            IF \E i \in 1..Len(api_keys) :
                  api_keys[i].id = k /\ api_keys[i].user_id = users[u].id
            THEN /\ resp'.code = HTTP_200_OK
                 /\ Len(api_keys') = Len(api_keys)
                 /\ \A i \in 1..Len(api_keys) :
                       api_keys'[i] = IF api_keys[i].id = k
                                      THEN [api_keys[i] EXCEPT !.is_active = FALSE]
                                      ELSE api_keys[i]
            ELSE /\ resp'.code = HTTP_404_NOT_FOUND
                 /\ resp'.body = [detail |-> "API key not found"]
                 /\ UNCHANGED api_keys ]_vars

\* An account asked to revoke an active key of another account.
C25_Witness ==
    /\ resp.op = "revoke_api_key"
    /\ resp.code = HTTP_404_NOT_FOUND
    /\ \E i \in 1..Len(api_keys) :
          /\ api_keys[i].id = resp.req.key_id
          /\ api_keys[i].user_id # users[resp.req.user].id
          /\ api_keys[i].is_active

----------------------------------------------------------------------------
(* Rate limiter claims *)

\* The timestamps recorded for ip that lie inside the last window_seconds.
recorded_in_window(ip) ==
    IF ip \in DOMAIN requests
    THEN SelectSeq(requests[ip], LAMBDA t : t > now - window_seconds)
    ELSE <<>>

\* C29: no client IP ever has more than max_requests recorded timestamps
\* inside the last window_seconds; a request arriving when the IP has
\* max_requests of them is answered by RateLimitExceededError, is not
\* forwarded and is not recorded; a request arriving when it has fewer is
\* forwarded and recorded with the current time.
C29_RateLimitBound ==
    /\ [](\A ip \in ClientIps : Len(recorded_in_window(ip)) <= max_requests)
    /\ [][ \A ip \in ClientIps :
             ( /\ Served("dispatch")
               /\ resp'.req.client_ip = ip ) =>
               IF Len(recorded_in_window(ip)) >= max_requests
               THEN /\ resp'.code = HTTP_429_TOO_MANY_REQUESTS
                    /\ resp'.body = RateLimitExceededError
                    /\ requests'[ip] = recorded_in_window(ip)
               ELSE /\ resp'.code = HTTP_200_OK
                    /\ resp'.body.forwarded
                    /\ requests'[ip] = Append(recorded_in_window(ip), now) ]_vars

\* A request was admitted at the instant the oldest of max_requests recorded
\* timestamps left the window.
C29_Witness ==
    /\ resp.op = "dispatch"
    /\ resp.code = HTTP_200_OK
    /\ now = resp.req.current_time
    /\ now = window_seconds
    /\ Len(requests[resp.req.client_ip]) = max_requests
    /\ requests[resp.req.client_ip][1] > 0
    /\ resp.body.X_RateLimit_Remaining = 0

\* C30: every request that went through call_next is answered with the
\* rate-limit headers, X-RateLimit-Remaining being computed without failure
\* and never negative.
C30_ResumeFindsOwnEntry ==
    resp.op = "dispatch" /\ resp.body.forwarded
        => /\ resp.body # KeyError
           /\ resp.body.X_RateLimit_Remaining >= 0

=============================================================================
